---- MODULE Spec2Model ----
(***************************************************************************)
(* Durability Score API (src/app.py): the validator, the scoring rules,   *)
(* the Submission table and the three request handlers POST /score,       *)
(* GET /history and GET /score-summary.                                    *)
(*                                                                         *)
(* Numbers.  The score computed by POST /score is a Python int.  The      *)
(* column Submission.sustainability_score is a Float; a Float is kept     *)
(* here as an integer number of hundredths (75.0 is 7500), which is exact *)
(* for every value the model stores (multiples of 0.25).                   *)
(* Text.  The suggestions column holds JSON text; the text is kept as its *)
(* sequence of tokens: "[", the quoted strings, ",", "]".                  *)
(***************************************************************************)
EXTENDS Integers, Sequences, FiniteSets

VARIABLES
    db,       \* the rows of the submission table, in id order
    req,      \* the request last received: its route and its JSON body
    resp,     \* the response to it: status, and the body by kind
    served,   \* the bodies of the 200 responses of POST /score so far, in order
    session   \* how the last db.session.commit() ended: "clean" before any,
              \* "committed" or "failed"

vars == <<db, req, resp, served, session>>

(***************************************************************************)
(* Bounds of the model.                                                    *)
(***************************************************************************)
MaxHist == 3
MaxMaterials == 3
MaxRows == 3

(***************************************************************************)
(* JSON values of a request body.  t is the Python type json gives the    *)
(* value ("absent": the key is not in the object); s, n, l hold a str, a  *)
(* number and a list.                                                      *)
(***************************************************************************)
Absent == [t |-> "absent", s |-> "", n |-> 0, l |-> <<>>]
JStr(x) == [t |-> "str", s |-> x, n |-> 0, l |-> <<>>]
JInt(k) == [t |-> "int", s |-> "", n |-> k, l |-> <<>>]
JFloat(k) == [t |-> "float", s |-> "", n |-> k, l |-> <<>>]
JBool(k) == [t |-> "bool", s |-> "", n |-> k, l |-> <<>>]
JList(q) == [t |-> "list", s |-> "", n |-> 0, l |-> q]

Range(q) == {q[i] : i \in 1..Len(q)}

\* x in q, for a Python list q
In(x, q) == \E i \in 1..Len(q) : q[i] = x

(***************************************************************************)
(* validate_input                                                          *)
(***************************************************************************)
RequiredFieldsSwapped == <<"product_name", "materials", "weight_grams", "packaging", "transport">>

\* the keys of required_fields, in the dict's insertion order
RequiredFields == <<"product_name", "materials", "weight_grams", "transport", "packaging">>

\* the values of required_fields: the Python types isinstance is given
ExpectedType(field) ==
    CASE field = "product_name" -> {"str"}
      [] field = "materials" -> {"list"}
      [] field = "weight_grams" -> {"int", "float"}
      [] field = "transport" -> {"str"}
      [] field = "packaging" -> {"str"}

\* isinstance(v, types): bool is a subclass of int
IsInstance(v, types) ==
    \/ v.t \in types
    \/ v.t = "bool" /\ "int" \in types

allowed_transports == <<"air", "rail", "sea", "road">>
allowed_packaging == <<"recyclable", "biodegradable", "non-recyclable">>

\* The error messages: the f-string's template and the field it names.
None == [kind |-> "None", field |-> ""]
RequiredError(field) == [kind |-> "is required", field |-> field]
TypeError(field) == [kind |-> "must be of type", field |-> field]
EnumError(field) == [kind |-> "must be one of", field |-> field]

\* the for loop over required_fields.items(), from the i-th item on
RECURSIVE CheckFields(_, _)
CheckFields(data, i) ==
    IF i > Len(RequiredFields) THEN None
    ELSE LET field == RequiredFields[i] IN
         IF data[field].t = "absent" THEN RequiredError(field)
         ELSE IF ~IsInstance(data[field], ExpectedType(field)) THEN TypeError(field)
         ELSE CheckFields(data, i + 1)

validate_input(data) ==
    LET e == CheckFields(data, 1) IN
    IF e # None THEN e
    ELSE IF ~In(data["transport"].s, allowed_transports) THEN EnumError("transport")
    ELSE IF ~In(data["packaging"].s, allowed_packaging) THEN EnumError("packaging")
    ELSE None

\* "if error:" a message is a non-empty string, None is falsy
Truthy(e) == e # None

(***************************************************************************)
(* The scoring rules of score(): each takes and returns the pair of the   *)
(* local variables score and suggestions.                                  *)
(***************************************************************************)
Baseline == 100

HeavyInclusive(weight_grams) == weight_grams >= 500

\* weight_grams > 500
Heavy(weight_grams) == weight_grams > 500

RulePlastic(st, materials) ==
    IF In("plastic", materials)
    THEN [score |-> st.score - 10,
          suggestions |-> Append(st.suggestions, "Avoid using plastic")]
    ELSE st

RuleRecycled(st, materials) ==
    IF In("recycled", materials)
    THEN [st EXCEPT !.score = @ + 10]
    ELSE st

RuleAluminum(st, materials) ==
    IF In("aluminum", materials)
    THEN [score |-> st.score + 5,
          suggestions |-> IF ~In("recycled", materials)
                          THEN Append(st.suggestions, "Consider using recycled aluminum")
                          ELSE st.suggestions]
    ELSE st

RuleTransport(st, transport) ==
    IF transport = "air"
    THEN [score |-> st.score - 15,
          suggestions |-> Append(st.suggestions, "Avoid air transport")]
    ELSE IF In(transport, <<"rail", "sea">>)
    THEN [st EXCEPT !.score = @ + 5]
    ELSE st

RulePackaging(st, packaging) ==
    IF In(packaging, <<"recyclable", "biodegradable">>)
    THEN [st EXCEPT !.score = @ + 10]
    ELSE [st EXCEPT !.suggestions =
              Append(@, "Use recyclable or biodegradable packaging")]

RuleWeightHeavyPenalty(st, weight_grams) ==
    IF Heavy(weight_grams)
    THEN [score |-> st.score - 50,
          suggestions |-> Append(st.suggestions, "Reduce product weight")]
    ELSE st

RuleWeight(st, weight_grams) ==
    IF Heavy(weight_grams)
    THEN [score |-> st.score - 5,
          suggestions |-> Append(st.suggestions, "Reduce product weight")]
    ELSE st

\* score = 100; suggestions = []; then the six rules in order
ApplyRules(materials, weight_grams, transport, packaging) ==
    LET s0 == [score |-> Baseline, suggestions |-> <<>>]
        s1 == RulePlastic(s0, materials)
        s2 == RuleRecycled(s1, materials)
        s3 == RuleAluminum(s2, materials)
        s4 == RuleTransport(s3, transport)
        s5 == RulePackaging(s4, packaging)
    IN  RuleWeight(s5, weight_grams)

RatingStrict(score) ==
    IF score > 90 THEN "A"
    ELSE IF score > 75 THEN "B"
    ELSE IF score > 60 THEN "C"
    ELSE "D"

\* the if / elif chain on the final score
Rating(score) ==
    IF score >= 90 THEN "A"
    ELSE IF score >= 75 THEN "B"
    ELSE IF score >= 60 THEN "C"
    ELSE "D"

\* round(score, 2) of a Python int is that int
RoundInt(score) == score

(***************************************************************************)
(* The Submission table and the JSON text of its suggestions column.      *)
(***************************************************************************)
Scale == 100

\* an int bound to the Float column sustainability_score, in hundredths
ToFloat(n) == n * Scale

RECURSIVE Joined(_)
Joined(q) ==
    IF Len(q) = 0 THEN <<>>
    ELSE IF Len(q) = 1 THEN <<q[1]>>
    ELSE <<q[1], ",">> \o Joined(Tail(q))

\* json.dumps of a list of strings
json_dumps(q) == <<"[">> \o Joined(q) \o <<"]">>

\* json.loads of the text of a JSON array of strings
json_loads(text) ==
    LET inner == SubSeq(text, 2, Len(text) - 1)
    IN  [i \in 1..((Len(inner) + 1) \div 2) |-> inner[2 * i - 1]]

Submission(product_name, sustainability_score, rating, suggestions) ==
    [id |-> 0,
     product_name |-> product_name,
     sustainability_score |-> ToFloat(sustainability_score),
     rating |-> rating,
     suggestions |-> suggestions]

InsertFirst(table, entry) ==
    <<[entry EXCEPT !.id = Len(table) + 1]>> \o table

\* db.session.add(entry); db.session.commit(): the row gets the next id
Insert(table, entry) ==
    Append(table, [entry EXCEPT !.id = Len(table) + 1])

\* Submission.query.all()
QueryAll(table) == table

(***************************************************************************)
(* Requests and responses.                                                 *)
(***************************************************************************)
RatingKeys == {"A", "B", "C", "D"}

NoData ==
    [product_name |-> Absent, materials |-> Absent, weight_grams |-> Absent,
     transport |-> Absent, packaging |-> Absent]
NoBody ==
    [product_name |-> "", sustainability_score |-> 0, rating |-> "",
     suggestions |-> <<>>]
NoSummary ==
    [total_products |-> 0, average_score |-> 0,
     ratings |-> [k \in RatingKeys |-> 0], top_issues |-> <<>>]

Request(op, data) == [op |-> op, data |-> data]

Response(status, kind, error, body, items, summary) ==
    [status |-> status, kind |-> kind, error |-> error, body |-> body,
     items |-> items, summary |-> summary]

NoResponse == Response(0, "none", None, NoBody, <<>>, NoSummary)
Pending == Response(0, "pending", None, NoBody, <<>>, NoSummary)

\* return jsonify({"error": error}), 400
BadRequest(error) == Response(400, "error", error, NoBody, <<>>, NoSummary)
\* an exception leaves the view function: Flask answers 500
InternalServerError == Response(500, "exception", None, NoBody, <<>>, NoSummary)
ScoreOk(body) == Response(200, "score", None, body, <<>>, NoSummary)
HistoryOk(items) == Response(200, "history", None, NoBody, items, NoSummary)
SummaryOk(summary) == Response(200, "summary", None, NoBody, <<>>, summary)

AfterCommitSwallowed(committed, body) == ScoreOk(body)

\* db.session.commit() returns, and the response is built and returned;
\* or it raises, and the exception leaves score()
AfterCommit(committed, body) ==
    IF committed THEN ScoreOk(body) ELSE InternalServerError

(***************************************************************************)
(* POST /score                                                             *)
(***************************************************************************)
score(data) ==
    LET error == validate_input(data) IN
    IF Truthy(error)
    THEN /\ resp' = BadRequest(error)
         /\ UNCHANGED <<db, served, session>>
    ELSE LET product_name == data["product_name"].s
             materials == data["materials"].l
             weight_grams == data["weight_grams"].n
             transport == data["transport"].s
             packaging == data["packaging"].s
             st == ApplyRules(materials, weight_grams, transport, packaging)
             rating == Rating(st.score)
             entry == Submission(product_name, RoundInt(st.score), rating,
                                 json_dumps(st.suggestions))
             body == [product_name |-> product_name,
                      sustainability_score |-> RoundInt(st.score),
                      rating |-> rating,
                      suggestions |-> st.suggestions]
         IN  \E committed \in BOOLEAN :
               /\ db' = IF committed THEN Insert(db, entry) ELSE db
               /\ session' = IF committed THEN "committed" ELSE "failed"
               /\ resp' = AfterCommit(committed, body)
               /\ served' = IF resp'.status = 200 THEN Append(served, body)
                                                 ELSE served

(***************************************************************************)
(* GET /history                                                            *)
(***************************************************************************)
HistoryItem(entry) ==
    [product_name |-> entry.product_name,
     sustainability_score |-> entry.sustainability_score,
     rating |-> entry.rating,
     suggestions |-> json_loads(entry.suggestions)]

get_history ==
    LET entries == QueryAll(db)
        result == [i \in 1..Len(entries) |-> HistoryItem(entries[i])]
    IN  /\ resp' = HistoryOk(result)
        /\ UNCHANGED <<db, served, session>>

(***************************************************************************)
(* GET /score-summary                                                      *)
(***************************************************************************)
RECURSIVE Sum(_)
\* sum(e.sustainability_score for e in entries)
Sum(entries) ==
    IF Len(entries) = 0 THEN 0
    ELSE entries[1].sustainability_score + Sum(Tail(entries))

RoundDivDown(total_score, total) == total_score \div total

\* round(total_score / total, 2), in hundredths: to the nearest hundredth, an
\* exact tie to the even one.  Every tie of the stored values (multiples of
\* 0.25, at most five of them) is a multiple of 1/8, which a double holds
\* exactly, so the tie rule of round() is the one that applies.
RoundDiv(total_score, total) ==
    LET q == total_score \div total
        r == total_score % total
    IN  IF 2 * r < total THEN q
        ELSE IF 2 * r > total THEN q + 1
        ELSE IF q % 2 = 0 THEN q ELSE q + 1

CountUnknownAsD(ratings_counter, rating) ==
    IF rating \in DOMAIN ratings_counter
    THEN [ratings_counter EXCEPT ![rating] = @ + 1]
    ELSE [ratings_counter EXCEPT !["D"] = @ + 1]

\* if e.rating in ratings_counter: ratings_counter[e.rating] += 1
CountRating(ratings_counter, rating) ==
    IF rating \in DOMAIN ratings_counter
    THEN [ratings_counter EXCEPT ![rating] = @ + 1]
    ELSE ratings_counter

RECURSIVE RatingsLoop(_, _)
\* the for loop's effect on ratings_counter
RatingsLoop(ratings_counter, entries) ==
    IF Len(entries) = 0 THEN ratings_counter
    ELSE RatingsLoop(CountRating(ratings_counter, entries[1].rating), Tail(entries))

RECURSIVE IssuesLoop(_, _)
\* the for loop's effect on issues_list
IssuesLoop(issues_list, entries) ==
    IF Len(entries) = 0 THEN issues_list
    ELSE IssuesLoop(issues_list \o json_loads(entries[1].suggestions), Tail(entries))

\* Counter(issues_list)[x]
Count(x, issues_list) ==
    Cardinality({i \in 1..Len(issues_list) : issues_list[i] = x})

RECURSIVE CounterKeys(_, _)
\* the keys of Counter(issues_list), in the dict's insertion order
CounterKeys(keys, issues_list) ==
    IF Len(issues_list) = 0 THEN keys
    ELSE CounterKeys(IF In(issues_list[1], keys) THEN keys
                     ELSE Append(keys, issues_list[1]),
                     Tail(issues_list))

PlaceBeforeTies(sorted, x, issues_list) ==
    LET k == Cardinality({i \in 1..Len(sorted) :
                            Count(sorted[i], issues_list) > Count(x, issues_list)})
    IN  SubSeq(sorted, 1, k) \o <<x>> \o SubSeq(sorted, k + 1, Len(sorted))

\* one step of the stable sort by descending count: x goes after every key
\* already placed whose count is at least its own
Place(sorted, x, issues_list) ==
    LET k == Cardinality({i \in 1..Len(sorted) :
                            Count(sorted[i], issues_list) >= Count(x, issues_list)})
    IN  SubSeq(sorted, 1, k) \o <<x>> \o SubSeq(sorted, k + 1, Len(sorted))

RECURSIVE SortedByCount(_, _, _)
\* sorted(counter.items(), key=count, reverse=True), the keys of it
SortedByCount(sorted, keys, issues_list) ==
    IF Len(keys) = 0 THEN sorted
    ELSE SortedByCount(Place(sorted, keys[1], issues_list), Tail(keys), issues_list)

\* [issue for issue, _ in Counter(issues_list).most_common(n)]:
\* heapq.nlargest(n, items, key=count) is sorted(items, key=count, reverse=True)[:n]
most_common(issues_list, n) ==
    LET all == SortedByCount(<<>>, CounterKeys(<<>>, issues_list), issues_list)
    IN  SubSeq(all, 1, IF Len(all) < n THEN Len(all) ELSE n)

Summarize(entries) ==
    IF Len(entries) = 0
    THEN [total_products |-> 0, average_score |-> 0,
          ratings |-> [k \in RatingKeys |-> 0], top_issues |-> <<>>]
    ELSE LET total == Len(entries)
             total_score == Sum(entries)
             average_score == RoundDiv(total_score, total)
             ratings_counter == RatingsLoop([k \in RatingKeys |-> 0], entries)
             issues_list == IssuesLoop(<<>>, entries)
             top_issues == most_common(issues_list, 3)
         IN  [total_products |-> total, average_score |-> average_score,
              ratings |-> ratings_counter, top_issues |-> top_issues]

score_summary ==
    LET entries == QueryAll(db)
    IN  /\ resp' = SummaryOk(Summarize(entries))
        /\ UNCHANGED <<db, served, session>>

(***************************************************************************)
(* The service: requests are handled one at a time, from an empty table.  *)
(***************************************************************************)
Data(product_name, materials, weight_grams, transport, packaging) ==
    [product_name |-> product_name, materials |-> materials,
     weight_grams |-> weight_grams, transport |-> transport,
     packaging |-> packaging]

\* The request bodies of test_app.py, and bodies that reach the least and the
\* greatest score and both sides of each rating threshold.
Requests ==
    { Data(JStr("Test Bottle"), JList(<<"plastic">>), JInt(300), JStr("air"),
           JStr("non-recyclable")),
      Data(JStr("History Test"), JList(<<"plastic">>), JInt(100), JStr("road"),
           JStr("non-recyclable")),
      Data(JStr("Summary 1"), JList(<<"recycled">>), JInt(100), JStr("rail"),
           JStr("recyclable")),
      Data(JStr("Summary 2"), JList(<<"plastic">>), JInt(800), JStr("air"),
           JStr("non-recyclable")),
      Data(JStr("Can"), JList(<<"recycled", "aluminum">>), JInt(500), JStr("sea"),
           JStr("biodegradable")),
      Data(JStr("Can"), JList(<<"aluminum", "aluminum">>), JInt(501), JStr("road"),
           JStr("non-recyclable")),
      Data(JStr("Crate"), JList(<<"plastic">>), JInt(800), JStr("road"),
           JStr("non-recyclable")),
      Data(JStr("Missing Transport"), JList(<<"plastic">>), JInt(100), Absent,
           JStr("recyclable")),
      Data(JStr("Invalid Materials"), JStr("plastic"), JInt(300), JStr("road"),
           JStr("recyclable")),
      Data(JStr("Invalid Transport"), JList(<<"plastic">>), JInt(300),
           JStr("spaceship"), JStr("recyclable")),
      Data(JStr("Invalid Packaging"), JList(<<"plastic">>), JInt(300), JStr("road"),
           JStr("unwrapped")) }

Init ==
    /\ db = <<>>
    /\ req = Request("none", NoData)
    /\ resp = NoResponse
    /\ served = <<>>
    /\ session = "clean"

\* MaxHist caps the table: no POST /score is taken once it is full
PostScore ==
    /\ Len(db) < MaxHist
    /\ \E data \in Requests :
         /\ req' = Request("score", data)
         /\ score(data)

GetHistory ==
    /\ req' = Request("history", NoData)
    /\ get_history

GetSummary ==
    /\ req' = Request("summary", NoData)
    /\ score_summary

Next == PostScore \/ GetHistory \/ GetSummary

Spec == Init /\ [][Next]_vars

(***************************************************************************)
(* POST /score as a function of the request body: one request, drawn from *)
(* every combination of the field values below, against an empty table.   *)
(***************************************************************************)
MaterialTokens == {"plastic", "recycled", "aluminum", "wood"}

MaterialLists == UNION {[1..k -> MaterialTokens] : k \in 0..MaxMaterials}

NameValues == {Absent, JInt(7), JStr(""), JStr("Bottle")}

MaterialsValues == {Absent, JStr("plastic")} \cup {JList(q) : q \in MaterialLists}

WeightValues == {Absent, JStr("300"), JInt(-5), JInt(500), JFloat(501), JBool(1)}

TransportValues ==
    {Absent, JInt(1)} \cup {JStr(x) : x \in {"air", "rail", "sea", "road", "spaceship"}}

PackagingValues ==
    {Absent, JList(<<>>)} \cup
    {JStr(x) : x \in {"recyclable", "biodegradable", "non-recyclable", "unwrapped"}}

InitScore ==
    /\ db = <<>>
    /\ \E n \in NameValues, m \in MaterialsValues, w \in WeightValues,
          t \in TransportValues, p \in PackagingValues :
         req = Request("score", Data(n, m, w, t, p))
    /\ resp = Pending
    /\ served = <<>>
    /\ session = "clean"

HandleScore ==
    /\ resp.kind = "pending"
    /\ req.op = "score"
    /\ score(req.data)
    /\ UNCHANGED req

NextScore == HandleScore

SpecScore == InitScore /\ [][NextScore]_vars

(***************************************************************************)
(* GET /score-summary as a function of the stored collection: the table   *)
(* file outlives the process, so the rows are any of the rows below.      *)
(***************************************************************************)
StoredScores ==
    { <<7500, "B">>, <<7225, "C">>, <<13000, "A">>, <<5000, "D">>, <<9000, "E">> }

StoredSuggestions ==
    { <<>>,
      <<"Avoid using plastic", "Avoid air transport",
        "Use recyclable or biodegradable packaging">>,
      <<"Consider using recycled aluminum",
        "Use recyclable or biodegradable packaging", "Reduce product weight">>,
      <<"Reduce product weight", "Avoid using plastic">> }

StoredRows ==
    { [id |-> 0, product_name |-> "p", sustainability_score |-> sr[1],
       rating |-> sr[2], suggestions |-> json_dumps(q)] :
        sr \in StoredScores, q \in StoredSuggestions }

\* the rows of a table of k rows, with the ids the table gave them
StoredCollection(f, k) == [i \in 1..k |-> [f[i] EXCEPT !.id = i]]

InitSummary ==
    /\ \E k \in 0..MaxRows :
         \E f \in [1..k -> StoredRows] : db = StoredCollection(f, k)
    /\ req = Request("summary", NoData)
    /\ resp = Pending
    /\ served = <<>>
    /\ session = "clean"

HandleSummary ==
    /\ resp.kind = "pending"
    /\ req.op = "summary"
    /\ score_summary
    /\ UNCHANGED req

NextSummary == HandleSummary

SpecSummary == InitSummary /\ [][NextSummary]_vars

(***************************************************************************)
(* Properties                                                              *)
(***************************************************************************)
Accepted == req.op = "score" /\ resp.kind = "score"

\* 1 when the condition holds, else 0
Ind(b) == IF b THEN 1 ELSE 0

AllSuggestions ==
    <<"Avoid using plastic", "Consider using recycled aluminum",
      "Avoid air transport", "Use recyclable or biodegradable packaging",
      "Reduce product weight">>

\* C1: for every accepted input, POST /score returns 100 - 10 for plastic, + 10
\* for recycled, + 5 for aluminum, - 15 for air or + 5 for rail or sea, + 10 for
\* recyclable or biodegradable packaging, - 5 for a weight over 500; and the
\* suggestions are the sub-sequence of the five fixed texts whose rule fired
\* (the aluminum one only without recycled), in that order, each at most once.
C1_ScoreRules ==
    Accepted =>
        LET M == Range(req.data["materials"].l)
            w == req.data["weight_grams"].n
            t == req.data["transport"].s
            p == req.data["packaging"].s
            Fired(x) ==
                \/ x = "Avoid using plastic" /\ "plastic" \in M
                \/ x = "Consider using recycled aluminum"
                     /\ "aluminum" \in M /\ "recycled" \notin M
                \/ x = "Avoid air transport" /\ t = "air"
                \/ x = "Use recyclable or biodegradable packaging"
                     /\ p \notin {"recyclable", "biodegradable"}
                \/ x = "Reduce product weight" /\ w > 500
        IN  /\ resp.body.sustainability_score =
                 100 - 10 * Ind("plastic" \in M) + 10 * Ind("recycled" \in M)
                     + 5 * Ind("aluminum" \in M) - 15 * Ind(t = "air")
                     + 5 * Ind(t \in {"rail", "sea"})
                     + 10 * Ind(p \in {"recyclable", "biodegradable"})
                     - 5 * Ind(w > 500)
            /\ resp.body.suggestions = SelectSeq(AllSuggestions, Fired)

\* C1 witness: an accepted input with a duplicated material, a weight of
\* exactly 500 and three rules firing.
C1_Witness ==
    /\ Accepted
    /\ req.data["materials"].l = <<"plastic", "aluminum", "plastic">>
    /\ req.data["weight_grams"].n = 500
    /\ req.data["transport"].s = "air"
    /\ resp.body.sustainability_score = 90
    /\ resp.body.suggestions =
         <<"Avoid using plastic", "Consider using recycled aluminum",
           "Avoid air transport">>

RatingRank(r) ==
    CASE r = "A" -> 4 [] r = "B" -> 3 [] r = "C" -> 2 [] r = "D" -> 1 [] OTHER -> 0

\* C2: the rating returned and stored is A for a score >= 90, B for 75..89,
\* C for 60..74, D below 60; so a higher score never has a lower rating.
C2_RatingThresholds ==
    /\ Len(db) = Len(served)
    /\ \A i \in 1..Len(served) :
         LET sc == served[i].sustainability_score
             r == served[i].rating
         IN  /\ db[i].rating = r
             /\ sc >= 90 => r = "A"
             /\ (75 <= sc /\ sc < 90) => r = "B"
             /\ (60 <= sc /\ sc < 75) => r = "C"
             /\ sc < 60 => r = "D"
    /\ \A i, j \in 1..Len(served) :
         served[i].sustainability_score > served[j].sustainability_score
            => RatingRank(served[i].rating) >= RatingRank(served[j].rating)

\* C2 witness: scores on both sides of the A and B thresholds are stored.
C2_Witness ==
    /\ \E i \in 1..Len(served) :
         served[i].sustainability_score = 90 /\ served[i].rating = "A"
    /\ \E i \in 1..Len(served) :
         served[i].sustainability_score = 85 /\ served[i].rating = "B"
    /\ \E i \in 1..Len(served) :
         served[i].sustainability_score = 70 /\ served[i].rating = "C"

FieldOrder ==
    <<"product_name", "materials", "weight_grams", "transport", "packaging">>

WellTyped(field, v) ==
    CASE field = "materials" -> v.t = "list"
      [] field = "weight_grams" -> v.t \in {"int", "float", "bool"}
      [] OTHER -> v.t = "str"

FieldFails(i) ==
    \/ req.data[FieldOrder[i]].t = "absent"
    \/ ~WellTyped(FieldOrder[i], req.data[FieldOrder[i]])

Handled == req.op = "score" /\ resp.kind # "pending"

\* the error validate_input returned: the body of the 400 response, or None
ReturnedError == IF resp.kind = "error" THEN resp.error ELSE None

\* C3: validate_input returns one error by a fixed priority: the first field,
\* in the order product_name, materials, weight_grams, transport, packaging,
\* that is missing or mistyped, named in the message; only then the transport
\* enum; only then the packaging enum; and None exactly when every check passes.
C3_ValidationPriority ==
    Handled =>
        LET failing == {i \in 1..5 : FieldFails(i)}
            transportOk == req.data["transport"].s \in {"air", "rail", "sea", "road"}
            packagingOk == req.data["packaging"].s
                              \in {"recyclable", "biodegradable", "non-recyclable"}
        IN  /\ failing # {} =>
                  LET i == CHOOSE k \in failing : \A m \in failing : k <= m
                  IN  /\ ReturnedError.field = FieldOrder[i]
                      /\ ReturnedError.kind =
                            IF req.data[FieldOrder[i]].t = "absent"
                            THEN "is required" ELSE "must be of type"
            /\ (failing = {} /\ ~transportOk) =>
                  ReturnedError = [kind |-> "must be one of", field |-> "transport"]
            /\ (failing = {} /\ transportOk /\ ~packagingOk) =>
                  ReturnedError = [kind |-> "must be one of", field |-> "packaging"]
            /\ (failing = {} /\ transportOk /\ packagingOk) <=> ReturnedError = None
            /\ resp.status = 400 <=> ReturnedError # None

\* C3 witness: transport and packaging are both missing and the error names
\* transport.
C3_Witness ==
    /\ Handled
    /\ req.data["product_name"].t = "str"
    /\ req.data["materials"].t = "list"
    /\ req.data["weight_grams"].t = "bool"
    /\ req.data["transport"].t = "absent"
    /\ req.data["packaging"].t = "absent"
    /\ resp.error = [kind |-> "is required", field |-> "transport"]

\* C4: every input that passes validation has a non-empty product_name, a
\* non-negative weight_grams and transport and packaging in their enums, so no
\* Submission is stored for an empty product_name or a negative weight_grams.
C4_ValidatedIsProductInput ==
    Accepted =>
        /\ req.data["product_name"].t = "str"
        /\ req.data["product_name"].s # ""
        /\ req.data["materials"].t = "list"
        /\ req.data["weight_grams"].n >= 0
        /\ req.data["transport"].s \in {"air", "rail", "sea", "road"}
        /\ req.data["packaging"].s \in {"recyclable", "biodegradable", "non-recyclable"}
        /\ \A i \in 1..Len(db) : db[i].product_name # ""

\* what the caller of a successful POST /score was told, as GET /history
\* shows it: the score as a Float
SameAsServed(item, body) ==
    /\ item.product_name = body.product_name
    /\ item.sustainability_score = 100 * body.sustainability_score
    /\ item.rating = body.rating
    /\ item.suggestions = body.suggestions

\* C5: the table, and every GET /history response, holds exactly one item per
\* successful POST /score, in request order, each with the product_name, score,
\* rating and suggestions its caller was returned; rejected requests and the
\* read requests add nothing, and no item is changed or removed.
C5_HistoryIsServed ==
    /\ Len(db) = Len(served)
    /\ \A i \in 1..Len(db) :
         /\ db[i].id = i
         /\ SameAsServed([db[i] EXCEPT !.suggestions = json_loads(@)], served[i])
    /\ resp.kind = "history" =>
         /\ Len(resp.items) = Len(served)
         /\ \A i \in 1..Len(served) : SameAsServed(resp.items[i], served[i])

\* C5 witness: a history of two different items is returned after a commit
\* failed.
C5_Witness ==
    /\ resp.kind = "history"
    /\ Len(resp.items) >= 2
    /\ resp.items[1] # resp.items[2]
    /\ resp.items[2].suggestions # <<>>
    /\ session = "failed"

\* C6: when the commit raises, the caller gets no success response; a 200
\* response to POST /score exists only with its Submission committed as the
\* last row of the table.
C6_SuccessOnlyAfterCommit ==
    /\ (req.op = "score" /\ session = "failed") => resp.status # 200
    /\ Accepted =>
         /\ session = "committed"
         /\ Len(db) >= 1
         /\ SameAsServed([db[Len(db)] EXCEPT !.suggestions = json_loads(@)],
                         resp.body)

\* C6 witness: a commit raised and the caller got 500, with rows committed
\* before it.
C6_Witness ==
    /\ req.op = "score"
    /\ session = "failed"
    /\ resp.status = 500
    /\ Len(db) = 1
    /\ Len(served) = 1

IsSummary == req.op = "summary" /\ resp.kind = "summary"

\* C7: total_products is the number of rows; ratings has exactly the keys A, B,
\* C, D, each with the number of rows of that rating; a row of another rating
\* is in total_products and in no bucket; the empty table gives 0, 0, four
\* zeros and no top issue.
C7_Histogram ==
    IsSummary =>
        LET sm == resp.summary
            known == {i \in 1..Len(db) : db[i].rating \in {"A", "B", "C", "D"}}
        IN  /\ sm.total_products = Len(db)
            /\ DOMAIN sm.ratings = {"A", "B", "C", "D"}
            /\ \A k \in {"A", "B", "C", "D"} :
                 sm.ratings[k] = Cardinality({i \in 1..Len(db) : db[i].rating = k})
            /\ sm.ratings["A"] + sm.ratings["B"] + sm.ratings["C"] + sm.ratings["D"]
                 = Cardinality(known)
            /\ Len(db) = 0 =>
                 /\ sm.average_score = 0
                 /\ \A k \in {"A", "B", "C", "D"} : sm.ratings[k] = 0
                 /\ sm.top_issues = <<>>

\* C7 witness: a summary over three rows, one of a rating outside A..D and one
\* rated D.
C7_Witness ==
    /\ IsSummary
    /\ Len(db) = 3
    /\ db[1].rating = "E"
    /\ db[3].rating = "D"
    /\ resp.summary.total_products = 3
    /\ resp.summary.ratings["D"] = 1

RECURSIVE ScoresUpTo(_)
\* the sum of the first i stored scores
ScoresUpTo(i) == IF i = 0 THEN 0 ELSE ScoresUpTo(i - 1) + db[i].sustainability_score

\* C8: for a non-empty table of N rows, average_score is the sum of the N
\* stored scores divided by N, rounded to 2 decimal places: no hundredth is
\* nearer to the quotient, and an exact tie goes to the even hundredth.
C8_AverageRounded ==
    (IsSummary /\ Len(db) > 0) =>
        LET a == resp.summary.average_score
            n == Len(db)
            d == a * n - ScoresUpTo(n)
        IN  /\ 2 * d <= n
            /\ -2 * d <= n
            /\ (2 * d = n \/ -2 * d = n) => a % 2 = 0

\* C8 witness: three rows whose mean is rounded up, not cut.
C8_Witness ==
    /\ IsSummary
    /\ Len(db) = 3
    /\ ScoresUpTo(3) = 21950
    /\ resp.summary.average_score = 7317

RECURSIVE Flattened(_)
\* the suggestions of the first i rows, concatenated in storage order
Flattened(i) ==
    IF i = 0 THEN <<>> ELSE Flattened(i - 1) \o json_loads(db[i].suggestions)

Occurrences(x, q) == Cardinality({i \in 1..Len(q) : q[i] = x})

FirstOccurrence(x, q) == CHOOSE i \in 1..Len(q) : q[i] = x /\ \A j \in 1..(i - 1) : q[j] # x

RanksBefore(x, y, q) ==
    \/ Occurrences(x, q) > Occurrences(y, q)
    \/ /\ Occurrences(x, q) = Occurrences(y, q)
       /\ FirstOccurrence(x, q) < FirstOccurrence(y, q)

\* C9: top_issues lists distinct suggestion texts of the concatenation, in
\* storage order, of all rows' suggestions: by descending number of
\* occurrences, equal counts by first occurrence, min(3, number of distinct
\* texts) entries, none repeated.
C9_TopIssues ==
    IsSummary =>
        LET top == resp.summary.top_issues
            flat == Flattened(Len(db))
            distinct == Range(flat)
        IN  /\ Len(top) = IF Cardinality(distinct) < 3 THEN Cardinality(distinct) ELSE 3
            /\ Range(top) \subseteq distinct
            /\ Cardinality(Range(top)) = Len(top)
            /\ \A i, j \in 1..Len(top) : i < j => RanksBefore(top[i], top[j], flat)
            /\ \A x \in distinct \ Range(top) :
                 \A i \in 1..Len(top) : RanksBefore(top[i], x, flat)

\* C9 witness: five distinct texts, three listed, the second and third with
\* equal counts and so in first-occurrence order.
C9_Witness ==
    /\ IsSummary
    /\ Cardinality(Range(Flattened(Len(db)))) = 5
    /\ Len(resp.summary.top_issues) = 3
    /\ Occurrences(resp.summary.top_issues[1], Flattened(Len(db))) = 2
    /\ Occurrences(resp.summary.top_issues[2], Flattened(Len(db))) = 1
    /\ Occurrences(resp.summary.top_issues[3], Flattened(Len(db))) = 1
    /\ resp.summary.top_issues[2] = "Consider using recycled aluminum"

\* C10: every score computed by POST /score is in 70..130, so every stored
\* Submission is rated A, B or C and every summary counts 0 rows rated D.
C10_ScoreRange ==
    /\ \A i \in 1..Len(served) :
         /\ served[i].sustainability_score >= 70
         /\ served[i].sustainability_score <= 130
    /\ \A i \in 1..Len(db) :
         /\ db[i].sustainability_score >= 7000
         /\ db[i].sustainability_score <= 13000
         /\ db[i].rating \in {"A", "B", "C"}
    /\ resp.kind = "summary" => resp.summary.ratings["D"] = 0

\* C10 witness: the least and the greatest score are both stored and a summary
\* of them is returned.
C10_Witness ==
    /\ resp.kind = "summary"
    /\ resp.summary.total_products >= 2
    /\ \E i \in 1..Len(db) : db[i].sustainability_score = 7000
    /\ \E i \in 1..Len(db) : db[i].sustainability_score = 13000

====
